---- MODULE Spec2Model ----
(***************************************************************************)
(* A model of crude-profiler (src/src/lib.rs): the process-wide Profile    *)
(* behind one Mutex, the operations push, Guard::replace, Guard::drop,     *)
(* clear and report, and the text report() builds.                         *)
(*                                                                         *)
(* Time is a counter the environment advances (Tick); two reads of         *)
(* Instant::now() may return the same value.  Every operation but clear    *)
(* reads Instant::now() BEFORE it takes the lock.  What an operation does  *)
(* while it holds the lock is an operator x_locked(n, ..) of the timestamp *)
(* n it read.  Spec is the single-threaded program: an operation is one    *)
(* step, in which the clock may advance between the first read and the     *)
(* last.  SpecConc is the program called from several threads: reading the *)
(* timestamp and running under the lock are two steps of a thread, and     *)
(* other threads and the clock may step in between.  SpecMutators is       *)
(* SpecConc without calls of report.                                       *)
(***************************************************************************)
EXTENDS Integers, Sequences, FiniteSets, TLC

(* ---------------- bounds ---------------- *)
MaxClock == 2
MaxGuards == 2
MaxCount == 3
MaxSum == 3
\* the same bounds for the program with several threads
MaxClockConc == 1
MaxGuardsConc == 2
MaxCountConc == 2

(* ---------------- the universe of inputs ---------------- *)
Labels == {"a", "b"}
Threads == {1, 2}

VARIABLES
  times,      \* Profile.times  : path -> duration
  counts,     \* Profile.counts : path -> number of push/replace
  stack,      \* Profile.stack
  started,    \* Profile.started
  clock,      \* what Instant::now() returns
  guards,     \* number of Guard values that exist (returned, drop not finished)
  pending,    \* per thread: the call that has read its timestamp and waits for the lock
  poisoned,   \* the Mutex is poisoned (a panic while it was held)
  out,        \* the text the last operation returned (empty unless it was report)
  epoch,      \* history: the clock at Profile::new() or at the last clear()
  stale,      \* history: clear() was called while a Guard existed
  last,       \* history: <<the last operation that ran, its timestamp if it was report>>
  track,      \* whether the three histories below are kept (fixed by the initial state)
  pushed,     \* history: the stacks produced by push since the last clear
  replaced,   \* history: <<old stack, new stack>> of each replace of a nested task since the last clear
  kinds       \* history: which of replace and report ran since the last clear

vars == <<times, counts, stack, started, clock, guards, pending, poisoned,
          out, epoch, stale, last, track, pushed, replaced, kinds>>

(* ---------------- maps ---------------- *)
EmptyMap == <<>>

\* HashMap entry(): add to an occupied entry, insert into a vacant one
add_to_map(m, k, d) ==
  IF k \in DOMAIN m THEN [m EXCEPT ![k] = @ + d] ELSE m @@ (k :> d)

\* increment_map with = in place of +=
increment_map_Overwrite(m, k, n) ==
  IF k \in DOMAIN m THEN [m EXCEPT ![k] = n] ELSE m @@ (k :> n)

increment_map(m, k, n) ==
  IF k \in DOMAIN m THEN [m EXCEPT ![k] = @ + n] ELSE m @@ (k :> n)

RECURSIVE SumOver(_, _)
SumOver(m, S) ==
  IF S = {} THEN 0
  ELSE LET k == CHOOSE x \in S : TRUE IN m[k] + SumOver(m, S \ {k})

\* the sum of the values of a map
SumMap(m) == SumOver(m, DOMAIN m)

(* ---------------- Profile ---------------- *)
\* Profile::new
NewProfile(t) ==
  [times |-> EmptyMap, counts |-> EmptyMap, started |-> t, stack |-> <<>>]

\* the fields of the Profile behind the Mutex
Profile == [times |-> times, counts |-> counts, started |-> started, stack |-> stack]

\* add_time with >= in place of >
add_time_NotStrict(tm, st, sd, n) ==
  IF n >= sd THEN add_to_map(tm, st, n - sd) ELSE tm

\* Profile::add_time: the interval is recorded only if now is strictly later
add_time(tm, st, sd, n) ==
  IF n > sd THEN add_to_map(tm, st, n - sd) ELSE tm

\* a pop that was left out
Pop_Missing(st) == st

\* Vec::pop on the stack: nothing happens on an empty stack
Pop(st) == IF Len(st) = 0 THEN st ELSE SubSeq(st, 1, Len(st) - 1)

\* no call is waiting for the lock
NoCall == [op |-> "none", task |-> "a", now |-> 0]

InitProgram ==
  /\ clock = 0
  /\ times = NewProfile(clock).times
  /\ counts = NewProfile(clock).counts
  /\ stack = NewProfile(clock).stack
  /\ started = NewProfile(clock).started
  /\ guards = 0
  /\ pending = [t \in Threads |-> NoCall]
  /\ poisoned = FALSE
  /\ out = <<>>
  /\ epoch = 0
  /\ stale = FALSE
  /\ last = <<"new", 0>>
  /\ pushed = {}
  /\ replaced = {}
  /\ kinds = {}

\* only the histories every claim needs are kept
Init == InitProgram /\ track = FALSE

\* all histories are kept
InitTracked == InitProgram /\ track = TRUE

\* the environment: time passes
Tick ==
  /\ clock < MaxClock
  /\ clock' = clock + 1
  /\ UNCHANGED <<times, counts, stack, started, guards, pending, poisoned,
                 out, epoch, stale, last, track, pushed, replaced, kinds>>

\* the values a later Instant::now() of the same operation can return
Later(c) == {c} \cup (IF c < MaxClock THEN {c + 1} ELSE {})

\* push with add_time called after the label is pushed
push_locked_TimeAfterPush(n, l, c) ==
  /\ stack' = Append(stack, l)
  /\ times' = add_time(times, stack', started, n)
  /\ counts' = increment_map(counts, stack', 1)
  /\ started' = c
  /\ guards' = guards + 1
  /\ last' = <<"push", 0>>
  /\ pushed' = (IF track THEN pushed \cup {stack'} ELSE pushed)
  /\ out' = <<>>
  /\ UNCHANGED <<poisoned, epoch, stale, track, replaced, kinds>>

\* push that leaves started as it was
push_locked_KeepsStarted(n, l, c) ==
  /\ times' = add_time(times, stack, started, n)
  /\ stack' = Append(stack, l)
  /\ counts' = increment_map(counts, stack', 1)
  /\ started' = started
  /\ guards' = guards + 1
  /\ last' = <<"push", 0>>
  /\ pushed' = (IF track THEN pushed \cup {stack'} ELSE pushed)
  /\ out' = <<>>
  /\ UNCHANGED <<poisoned, epoch, stale, track, replaced, kinds>>

\* push that sets started to the timestamp it read before it took the lock
push_locked_StartedIsNow(n, l, c) ==
  /\ times' = add_time(times, stack, started, n)
  /\ stack' = Append(stack, l)
  /\ counts' = increment_map(counts, stack', 1)
  /\ started' = n
  /\ guards' = guards + 1
  /\ last' = <<"push", 0>>
  /\ pushed' = (IF track THEN pushed \cup {stack'} ELSE pushed)
  /\ out' = <<>>
  /\ UNCHANGED <<poisoned, epoch, stale, track, replaced, kinds>>

\* push, from PROFILE.lock() on: n is the timestamp read before, c what the
\* closing Instant::now() returns
push_locked(n, l, c) ==
  /\ times' = add_time(times, stack, started, n)
  /\ stack' = Append(stack, l)
  /\ counts' = increment_map(counts, stack', 1)
  /\ started' = c
  /\ guards' = guards + 1
  /\ last' = <<"push", 0>>
  /\ pushed' = (IF track THEN pushed \cup {stack'} ELSE pushed)
  /\ out' = <<>>
  /\ UNCHANGED <<poisoned, epoch, stale, track, replaced, kinds>>

\* replace without the pop
replace_locked_NoPop(n, l, c) ==
  /\ times' = add_time(times, stack, started, n)
  /\ stack' = Append(stack, l)
  /\ counts' = increment_map(counts, stack', 1)
  /\ started' = c
  /\ last' = <<"replace", 0>>
  /\ replaced' = (IF track /\ Len(stack) >= 2 THEN replaced \cup {<<stack, stack'>>}
                  ELSE replaced)
  /\ kinds' = (IF track THEN kinds \cup {"replace"} ELSE kinds)
  /\ out' = <<>>
  /\ UNCHANGED <<guards, poisoned, epoch, stale, track, pushed>>

\* replace without the increment of the count
replace_locked_NoCount(n, l, c) ==
  /\ times' = add_time(times, stack, started, n)
  /\ stack' = Append(Pop(stack), l)
  /\ counts' = counts
  /\ started' = c
  /\ last' = <<"replace", 0>>
  /\ replaced' = (IF track /\ Len(stack) >= 2 THEN replaced \cup {<<stack, stack'>>}
                  ELSE replaced)
  /\ kinds' = (IF track THEN kinds \cup {"replace"} ELSE kinds)
  /\ out' = <<>>
  /\ UNCHANGED <<guards, poisoned, epoch, stale, track, pushed>>

\* Guard::replace, from PROFILE.lock() on
replace_locked(n, l, c) ==
  /\ times' = add_time(times, stack, started, n)
  /\ stack' = Append(Pop(stack), l)
  /\ counts' = increment_map(counts, stack', 1)
  /\ started' = c
  /\ last' = <<"replace", 0>>
  /\ replaced' = (IF track /\ Len(stack) >= 2 THEN replaced \cup {<<stack, stack'>>}
                  ELSE replaced)
  /\ kinds' = (IF track THEN kinds \cup {"replace"} ELSE kinds)
  /\ out' = <<>>
  /\ UNCHANGED <<guards, poisoned, epoch, stale, track, pushed>>

\* drop that panics on an empty stack (pop().unwrap()) while it holds the lock
drop_locked_Unwrap(n, c) ==
  /\ times' = add_time(times, stack, started, n)
  /\ stack' = Pop(stack)
  /\ started' = (IF Len(stack) = 0 THEN started ELSE c)
  /\ poisoned' = (Len(stack) = 0)
  /\ guards' = guards - 1
  /\ last' = <<"drop", 0>>
  /\ out' = <<>>
  /\ UNCHANGED <<counts, epoch, stale, track, pushed, replaced, kinds>>

\* drop that sets started to the timestamp it read before it took the lock
drop_locked_StartedIsNow(n, c) ==
  /\ times' = add_time(times, stack, started, n)
  /\ stack' = Pop(stack)
  /\ started' = n
  /\ guards' = guards - 1
  /\ last' = <<"drop", 0>>
  /\ out' = <<>>
  /\ UNCHANGED <<counts, poisoned, epoch, stale, track, pushed, replaced, kinds>>

\* Guard::drop, from PROFILE.lock() on
drop_locked(n, c) ==
  /\ times' = add_time(times, stack, started, n)
  /\ stack' = Pop(stack)
  /\ started' = c
  /\ guards' = guards - 1
  /\ last' = <<"drop", 0>>
  /\ out' = <<>>
  /\ UNCHANGED <<counts, poisoned, epoch, stale, track, pushed, replaced, kinds>>

(* ---------------- report ---------------- *)
\* number of positions of path k that hold label s
Occ(k, s) == Cardinality({i \in 1..Len(k) : k[i] = s})

\* slice::contains
Contains(k, s) == \E i \in 1..Len(k) : k[i] = s

\* the labels that get an entry in cum: every label of every key of times
LabelsIn(tm) == {s \in Labels : \E k \in DOMAIN tm : Contains(k, s)}

\* total_time: the sum of the values of times
total_time(tm) == SumMap(tm)

\* cum: for every key k and every ELEMENT s of k, times[k] is added to cum[s]
cum(tm) ==
  [s \in LabelsIn(tm) |-> SumMap([k \in DOMAIN tm |-> Occ(k, s) * tm[k]])]

\* cumcount: the same loop, adding counts[k]
cumcount(tm, cn) ==
  [s \in LabelsIn(tm) |->
     SumMap([k \in DOMAIN tm |-> IF Occ(k, s) = 0 THEN 0 ELSE Occ(k, s) * cn[k]])]

\* m.counts[k] panics when k is not a key of counts
ReportPanics(tm, cn) == \E k \in DOMAIN tm : Len(k) > 0 /\ k \notin DOMAIN cn

\* the way cut at the last occurrence of s instead of the first
WayOf_LastOccurrence(k, s) ==
  SubSeq(k, 1, CHOOSE i \in 1..Len(k) : k[i] = s /\ \A j \in (i + 1)..Len(k) : k[j] # s)

\* k.split(|ss| ss == s).next() followed by push(s): k up to its first s
WayOf(k, s) ==
  SubSeq(k, 1, CHOOSE i \in 1..Len(k) : k[i] = s /\ \A j \in 1..(i - 1) : k[j] # s)

KeysWith(tm, s) == {k \in DOMAIN tm : Contains(k, s)}

ways(tm, s) ==
  [w \in {WayOf(k, s) : k \in KeysWith(tm, s)} |->
     SumMap([k \in {kk \in KeysWith(tm, s) : WayOf(kk, s) = w} |-> tm[k]])]

wayscount(tm, cn, s) ==
  [w \in {WayOf(k, s) : k \in KeysWith(tm, s)} |->
     SumMap([k \in {kk \in KeysWith(tm, s) : WayOf(kk, s) = w} |-> cn[k]])]

\* sort_by_key followed by reverse, on the keys of a HashMap: the keys in
\* non-increasing order of value; keys of equal value come in the order the
\* HashMap iterated them, which is any order
RECURSIVE SortedOrders(_)
SortedOrders(m) ==
  IF DOMAIN m = {} THEN {<<>>}
  ELSE UNION {
         {<<x>> \o r : r \in SortedOrders([y \in DOMAIN m \ {x} |-> m[y]])}
         : x \in {z \in DOMAIN m : \A y \in DOMAIN m : m[y] <= m[z]} }

\* pretty_stack: every label followed by ":"
pretty_stack(v) ==
  [i \in 1..(2 * Len(v)) |-> IF i % 2 = 1 THEN v[(i + 1) \div 2] ELSE ":"]

\* one line of the report: percent is 100*dur/total, the average is dur/count
Line(ind, nm, d, c, tot) ==
  [indent |-> ind, name |-> nm, dur |-> d, count |-> c, total |-> tot]

\* the header and the indented lines written for a single way too
Block_AlwaysHeader(tm, cn, s, wo) ==
  <<Line(FALSE, <<s>>, cum(tm)[s], cumcount(tm, cn)[s], total_time(tm))>>
  \o [i \in 1..Len(wo) |->
        Line(TRUE, pretty_stack(wo[i]), ways(tm, s)[wo[i]],
             wayscount(tm, cn, s)[wo[i]], total_time(tm))]

\* the lines report() writes for label s, its ways taken in the order wo
Block(tm, cn, s, wo) ==
  IF Len(wo) > 1
  THEN <<Line(FALSE, <<s>>, cum(tm)[s], cumcount(tm, cn)[s], total_time(tm))>>
       \o [i \in 1..Len(wo) |->
             Line(TRUE, pretty_stack(wo[i]), ways(tm, s)[wo[i]],
                  wayscount(tm, cn, s)[wo[i]], total_time(tm))]
  ELSE <<Line(FALSE, pretty_stack(wo[1]), cum(tm)[s], cumcount(tm, cn)[s],
              total_time(tm))>>

\* the texts report() can produce for the labels lo[i..]
RECURSIVE TextsFrom(_, _, _, _)
TextsFrom(tm, cn, lo, i) ==
  IF i > Len(lo) THEN {<<>>}
  ELSE {Block(tm, cn, lo[i], wo) \o rest :
          wo \in SortedOrders(ways(tm, lo[i])), rest \in TextsFrom(tm, cn, lo, i + 1)}

\* every text report() can return for these maps
ReportTexts(tm, cn) ==
  UNION {TextsFrom(tm, cn, lo, 1) : lo \in SortedOrders(cum(tm))}

\* report, from PROFILE.lock() on; started is left as it was
report_locked(n) ==
  /\ times' = add_time(times, stack, started, n)
  /\ SumMap(times') <= MaxSum
  /\ last' = <<"report", n>>
  /\ kinds' = (IF track THEN kinds \cup {"report"} ELSE kinds)
  /\ UNCHANGED <<counts, stack, started, guards, epoch, stale, track, pushed, replaced>>
  /\ IF ReportPanics(times', counts)
     THEN poisoned' = TRUE /\ out' = <<>>
     ELSE poisoned' = FALSE /\ out' \in ReportTexts(times', counts)

(* ---------------- the single-threaded program ---------------- *)
\* no thread is between its timestamp and the lock
Quiet == \A t \in Threads : pending[t] = NoCall

push(l) ==
  /\ Quiet /\ ~poisoned
  /\ guards < MaxGuards
  /\ SumMap(counts) < MaxCount
  /\ \E c \in Later(clock) : clock' = c /\ push_locked(clock, l, c)
  /\ UNCHANGED pending

replace(l) ==
  /\ Quiet /\ ~poisoned
  /\ guards > 0
  /\ SumMap(counts) < MaxCount
  /\ \E c \in Later(clock) : clock' = c /\ replace_locked(clock, l, c)
  /\ UNCHANGED pending

drop ==
  /\ Quiet /\ ~poisoned
  /\ guards > 0
  /\ \E c \in Later(clock) : clock' = c /\ drop_locked(clock, c)
  /\ UNCHANGED pending

report ==
  /\ Quiet /\ ~poisoned
  /\ UNCHANGED <<clock, pending>>
  /\ report_locked(clock)

\* clear that leaves the stack alone
clear_KeepsStack ==
  /\ ~poisoned
  /\ times' = EmptyMap
  /\ counts' = EmptyMap
  /\ stack' = stack
  /\ started' = clock
  /\ epoch' = clock
  /\ stale' = (stale \/ guards > 0)
  /\ last' = <<"clear", 0>>
  /\ pushed' = {}
  /\ replaced' = {}
  /\ kinds' = {}
  /\ out' = <<>>
  /\ UNCHANGED <<clock, guards, pending, poisoned, track>>

\* clear reads the clock while it holds the lock
clear ==
  /\ ~poisoned
  /\ times' = EmptyMap
  /\ counts' = EmptyMap
  /\ stack' = <<>>
  /\ started' = clock
  /\ epoch' = clock
  /\ stale' = (stale \/ guards > 0)
  /\ last' = <<"clear", 0>>
  /\ pushed' = {}
  /\ replaced' = {}
  /\ kinds' = {}
  /\ out' = <<>>
  /\ UNCHANGED <<clock, guards, pending, poisoned, track>>

Next ==
  \/ Tick
  \/ \E l \in Labels : push(l)
  \/ \E l \in Labels : replace(l)
  \/ drop
  \/ report
  \/ clear

Spec == Init /\ [][Next]_vars

\* the same program, with all histories kept
SpecTracked == InitTracked /\ [][Next]_vars

(* ---------------- the program with several threads ---------------- *)
\* the calls of kind op that wait for the lock
Waiting(op) == Cardinality({t \in Threads : pending[t].op = op})

\* thread t enters an operation and reads Instant::now()
Read(t, op, l) ==
  /\ pending[t] = NoCall
  /\ ~poisoned
  /\ pending' = [pending EXCEPT ![t] = [op |-> op, task |-> l, now |-> clock]]
  /\ UNCHANGED <<times, counts, stack, started, clock, guards, poisoned,
                 out, epoch, stale, last, track, pushed, replaced, kinds>>

ReadPush(t, l) ==
  /\ guards + Waiting("push") < MaxGuardsConc
  /\ SumMap(counts) + Waiting("push") + Waiting("replace") < MaxCountConc
  /\ Read(t, "push", l)

\* replace borrows a Guard that is not being dropped
ReadReplace(t, l) ==
  /\ guards - Waiting("drop") >= 1
  /\ SumMap(counts) + Waiting("push") + Waiting("replace") < MaxCountConc
  /\ Read(t, "replace", l)

\* drop owns its Guard: no other thread is dropping or borrowing it
ReadDrop(t) ==
  /\ guards - Waiting("drop") - Waiting("replace") >= 1
  /\ Read(t, "drop", "a")

ReadReport(t) ==
  /\ SumMap(times) < MaxSum
  /\ Read(t, "report", "a")

\* thread t gets the lock and finishes its operation
Done(t) == pending' = [pending EXCEPT ![t] = NoCall] /\ clock' = clock

LockPush(t) ==
  /\ pending[t].op = "push" /\ ~poisoned
  /\ push_locked(pending[t].now, pending[t].task, clock)
  /\ Done(t)

LockReplace(t) ==
  /\ pending[t].op = "replace" /\ ~poisoned
  /\ replace_locked(pending[t].now, pending[t].task, clock)
  /\ Done(t)

LockDrop(t) ==
  /\ pending[t].op = "drop" /\ ~poisoned
  /\ drop_locked(pending[t].now, clock)
  /\ Done(t)

LockReport(t) ==
  /\ pending[t].op = "report" /\ ~poisoned
  /\ report_locked(pending[t].now)
  /\ Done(t)

\* the environment: time passes
TickConc == clock < MaxClockConc /\ Tick

NextConc ==
  \/ TickConc
  \/ \E t \in Threads, l \in Labels : ReadPush(t, l)
  \/ \E t \in Threads, l \in Labels : ReadReplace(t, l)
  \/ \E t \in Threads : ReadDrop(t)
  \/ \E t \in Threads : ReadReport(t)
  \/ \E t \in Threads : LockPush(t)
  \/ \E t \in Threads : LockReplace(t)
  \/ \E t \in Threads : LockDrop(t)
  \/ \E t \in Threads : LockReport(t)
  \/ clear

SpecConc == Init /\ [][NextConc]_vars

\* the threads call push, replace, drop and clear only
NextMutators ==
  \/ Tick
  \/ \E t \in Threads, l \in Labels : ReadPush(t, l)
  \/ \E t \in Threads, l \in Labels : ReadReplace(t, l)
  \/ \E t \in Threads : ReadDrop(t)
  \/ \E t \in Threads : LockPush(t)
  \/ \E t \in Threads : LockReplace(t)
  \/ \E t \in Threads : LockDrop(t)
  \/ clear

SpecMutators == Init /\ [][NextMutators]_vars

(* ======================================================================= *)
(* The claims                                                              *)
(* ======================================================================= *)

\* the value of a map at k, 0 when k is not a key
Get(m, k) == IF k \in DOMAIN m THEN m[k] ELSE 0

\* map m2 is map m with v added at key k (the key created if absent) and
\* nothing else changed
AddedAt(m, m2, k, v) ==
  /\ DOMAIN m2 = DOMAIN m \cup {k}
  /\ m2[k] = Get(m, k) + v
  /\ \A j \in DOMAIN m \ {k} : m2[j] = m[j]

\* a path written the way the tests look for it: labels joined by ":"
Join(p) ==
  [i \in 1..(2 * Len(p) - 1) |-> IF i % 2 = 1 THEN p[(i + 1) \div 2] ELSE ":"]

IsInfix(x, y) ==
  \E i \in 0..(Len(y) - Len(x)) : SubSeq(y, i + 1, i + Len(x)) = x

\* String::contains on the report, for a path
TextContains(text, p) == \E n \in 1..Len(text) : IsInfix(Join(p), text[n].name)

(* C1: the sum of all durations in times never exceeds the time elapsed    *)
(* since the last clear (or since creation).                               *)
C1_SumWithinElapsed == SumMap(times) <= clock - epoch

(* C2: a second report() right after a first one, with the same timestamp, *)
(* leaves times, counts, stack and started as they were and returns the    *)
(* same text.                                                              *)
C2_ReportIdempotent ==
  [][(report /\ last = <<"report", clock>>)
       => (times' = times /\ counts' = counts /\ stack' = stack
           /\ started' = started /\ out' = out)]_vars

(* C3 as claimed: the length of the stack equals the number of Guards that *)
(* exist, in every reachable state.                                        *)
C3_StackLenEqGuards == Len(stack) = guards

(* C3 amended: the length of the stack never exceeds the number of Guards  *)
(* that exist, and equals it as long as clear() has never been called      *)
(* while a Guard existed.                                                  *)
C3_StackLenWithinGuards ==
  /\ Len(stack) <= guards
  /\ ~stale => Len(stack) = guards

C3_Witness == stale /\ Len(stack) = 1 /\ guards = 2

(* C4: clear() leaves the Profile equal to a freshly created one whose     *)
(* started is the time of the clear, whatever the state before; and a      *)
(* clear() of a Profile that a clear() has just left changes nothing.      *)
C4_ClearYieldsFresh ==
  [][clear
       => /\ Profile' = NewProfile(clock')
          /\ Profile = NewProfile(clock) => Profile' = Profile]_vars

C4_Witness == last[1] = "clear" /\ stale /\ guards > 0 /\ clock > 0

(* C5: push, replace and drop add the interval now - started (when it is   *)
(* positive) to the times entry of the stack as it was before the          *)
(* operation changed it; no other entry changes, in particular not the     *)
(* entry of the stack the operation produces.                              *)
C5_TimeGoesToOldStack ==
  [][\A l \in Labels :
       (push(l) \/ replace(l) \/ drop)
         => /\ IF clock > started
               THEN AddedAt(times, times', stack, clock - started)
               ELSE times' = times
            /\ stack' # stack =>
                 /\ (stack' \in DOMAIN times') = (stack' \in DOMAIN times)
                 /\ Get(times', stack') = Get(times, stack')]_vars

\* after a drop, the path that still had the popped label has time
C5_Witness ==
  /\ last[1] = "drop"
  /\ ~stale
  /\ started > epoch
  /\ Len(stack) = 1
  /\ \E l \in Labels : Append(stack, l) \in DOMAIN times

(* C6: after clear(), for any sequence of nested push calls and Guard      *)
(* drops followed by report(), the text contains every path that was the   *)
(* stack after some push.                                                  *)
C6_ReportHasPushedPaths ==
  [][(report /\ track /\ ~stale /\ kinds = {})
       => \A p \in pushed : TextContains(out', p)]_vars

(* C7: after clear(), when an inner guard under an outer task is replaced, *)
(* the report contains the path before and the path after the replace,     *)
(* no path in which the new label is nested under the old one, and no      *)
(* label that was never pushed.                                            *)
C7_ReplaceIsolation ==
  [][(report /\ track /\ ~stale /\ "report" \notin kinds)
       => \A r \in replaced :
            (Len(r[1]) = 2 /\ r[1][1] # r[1][2] /\ r[2][2] # r[1][2]) =>
              /\ TextContains(out', r[1])
              /\ TextContains(out', r[2])
              /\ ~TextContains(out', Append(r[1], r[2][2]))
              /\ \A n \in 1..Len(out') : \A i \in 1..Len(out'[n].name) :
                   \/ out'[n].name[i] = ":"
                   \/ \E q \in pushed \cup {x[2] : x \in replaced} :
                        Contains(q, out'[n].name[i])]_vars

(* C8 as claimed: replace leaves the length of the stack unchanged and     *)
(* changes only its last label.                                            *)
C8_ReplaceKeepsDepth ==
  [][\A l \in Labels :
       replace(l)
         => /\ Len(stack') = Len(stack)
            /\ Len(stack') > 0
            /\ stack'[Len(stack')] = l
            /\ \A i \in 1..(Len(stack) - 1) : stack'[i] = stack[i]]_vars

(* C8 amended: on a non-empty stack replace leaves the length unchanged    *)
(* and changes only the last label; on an empty stack (the Guard outlived  *)
(* a clear) it pushes the new label, so the stack gets length 1.           *)
C8_ReplaceKeepsDepthUnlessEmpty ==
  [][\A l \in Labels :
       replace(l)
         => IF Len(stack) > 0
            THEN /\ Len(stack') = Len(stack)
                 /\ stack'[Len(stack')] = l
                 /\ \A i \in 1..(Len(stack) - 1) : stack'[i] = stack[i]
            ELSE stack' = <<l>>]_vars

C8_Witness == last[1] = "replace" /\ Len(stack) = 2 /\ stack[1] # stack[2] /\ ~stale

(* C9: each push and each replace adds exactly 1 to the count of the stack *)
(* it produces and changes no other count; drop and report change no       *)
(* count; clear empties counts.                                            *)
C9_CountsCountPushAndReplace ==
  [][IF \E l \in Labels : push(l) \/ replace(l)
     THEN AddedAt(counts, counts', stack', 1)
     ELSE IF clear THEN counts' = EmptyMap ELSE counts' = counts]_vars

C9_Witness ==
  /\ last[1] = "replace"
  /\ \E p \in DOMAIN counts : counts[p] = 2
  /\ Cardinality(DOMAIN counts) = 2

\* the label a non-indented line of the report is about
LineLabel(ln) == IF Len(ln.name) = 1 THEN ln.name[1] ELSE ln.name[Len(ln.name) - 1]

\* the sum of m over the keys of tm that contain s, each key once
SumContaining(m, tm, s) == SumOver(m, {k \in DOMAIN tm : Contains(k, s)})

(* C10: the cumulative duration (and count) the report gives for a label   *)
(* is the sum of the durations (counts) of the recorded paths that contain *)
(* the label, each path counted once.                                      *)
C10_CumulativeIsSumOfPaths ==
  [][report =>
       \A n \in 1..Len(out') :
         ~out'[n].indent =>
           /\ out'[n].dur = SumContaining(times', times', LineLabel(out'[n]))
           /\ out'[n].count = SumContaining(counts', times', LineLabel(out'[n]))]_vars

\* the path a line of the report names: pretty_stack undone
PathOf(nm) == [i \in 1..(Len(nm) \div 2) |-> nm[2 * i - 1]]

\* w is path k cut after the first occurrence of label s
IsWayOf(w, k, s) ==
  /\ Len(w) >= 1 /\ Len(w) <= Len(k)
  /\ \A i \in 1..Len(w) : w[i] = k[i]
  /\ w[Len(w)] = s
  /\ \A i \in 1..(Len(w) - 1) : w[i] # s

\* the sum of m over the keys of tm of which w is the way for s
SumOfWay(m, tm, w, s) == SumOver(m, {k \in DOMAIN tm : IsWayOf(w, k, s)})

(* C11: for every label s, every recorded path that contains s adds its    *)
(* duration and count to exactly one way of s, the one keyed by the path   *)
(* cut after its first s; paths without s add to no way of s.  So each way *)
(* report() computes from the records, and each indented line of the text  *)
(* it has just returned, carries the sums over exactly the paths of that   *)
(* way.                                                                    *)
C11_WaysPartitionPaths ==
  /\ \A s \in Labels :
       LET W == ways(times, s)
           WC == wayscount(times, counts, s)
       IN  /\ \A k \in DOMAIN times :
                Cardinality({w \in DOMAIN W : IsWayOf(w, k, s)})
                  = (IF Contains(k, s) THEN 1 ELSE 0)
           /\ \A w \in DOMAIN W :
                /\ W[w] = SumOfWay(times, times, w, s)
                /\ WC[w] = SumOfWay(counts, times, w, s)
                /\ \E k \in DOMAIN times : IsWayOf(w, k, s)
  /\ last[1] = "report" =>
       \A n \in 1..Len(out) :
         out[n].indent =>
           LET w == PathOf(out[n].name) IN
             /\ out[n].dur = SumOfWay(times, times, w, w[Len(w)])
             /\ out[n].count = SumOfWay(counts, times, w, w[Len(w)])

\* a report in which a label has two ways
C11_Witness ==
  /\ last[1] = "report"
  /\ \E n \in 1..Len(out) : out[n].indent /\ Len(PathOf(out[n].name)) = 2

\* the natural order of the labels (str::cmp)
LabelRank(l) == IF l = "a" THEN 1 ELSE 2

(* C12: the report writes the blocks of the labels in order of descending  *)
(* cumulative duration, and labels of equal cumulative duration in their   *)
(* natural order, so the order is a function of the records.               *)
C12_LabelOrderDeterministic ==
  [][report =>
       \A i, j \in 1..Len(out') :
         (i < j /\ ~out'[i].indent /\ ~out'[j].indent) =>
           \/ out'[i].dur > out'[j].dur
           \/ /\ out'[i].dur = out'[j].dur
              /\ LabelRank(LineLabel(out'[i])) < LabelRank(LineLabel(out'[j]))]_vars

\* the order of the paths (Vec::cmp): lexicographic, a proper prefix first
RECURSIVE PathLess(_, _)
PathLess(x, y) ==
  IF Len(x) = 0 THEN Len(y) > 0
  ELSE IF Len(y) = 0 THEN FALSE
  ELSE IF x[1] # y[1] THEN LabelRank(x[1]) < LabelRank(y[1])
  ELSE PathLess(Tail(x), Tail(y))

(* C13: under a label with more than one way the ways are written in       *)
(* descending order of their summed duration, ways of equal duration in    *)
(* the order of their keys; so the order of the lines depends on the       *)
(* records only, not on the order of the calls that produced them.         *)
C13_WayOrderDeterministic ==
  [][report =>
       \A i, j \in 1..Len(out') :
         (/\ i < j /\ out'[i].indent /\ out'[j].indent
          /\ \A n \in i..j : out'[n].indent) =>
           \/ out'[i].dur > out'[j].dur
           \/ /\ out'[i].dur = out'[j].dur
              /\ PathLess(PathOf(out'[i].name), PathOf(out'[j].name))]_vars

\* the ways of label s among the keys of tm
WaysOf(tm, s) ==
  {w \in UNION {{SubSeq(k, 1, i) : i \in 1..Len(k)} : k \in DOMAIN tm} :
     \E k \in DOMAIN tm : IsWayOf(w, k, s)}

\* a line with no text
IsBlank(ln) == Len(ln.name) = 0

\* the positions of the lines that open the block of label s
Openers(text, s) ==
  {h \in 1..Len(text) :
     ~text[h].indent /\ ~IsBlank(text[h]) /\ LineLabel(text[h]) = s}

\* the block of label s opens at h: one line with the full path of the way
\* when s has one way, else a header with the label and one indented line
\* per way
BlockAt(text, tm, s, h) ==
  LET W == WaysOf(tm, s)
      n == Cardinality(W)
  IN  IF n = 1
      THEN /\ PathOf(text[h].name) \in W
           /\ Len(text[h].name) = 2 * Len(PathOf(text[h].name))
           /\ h < Len(text) => ~text[h + 1].indent
      ELSE /\ text[h].name = <<s>>
           /\ h + n <= Len(text)
           /\ \A i \in (h + 1)..(h + n) : text[i].indent
           /\ {PathOf(text[i].name) : i \in (h + 1)..(h + n)} = W

(* C14 as claimed: for each label the text report() has just returned has  *)
(* exactly one line, with the full path of the way, when the label has one *)
(* way; when it has more it has a header line, one indented line per way,  *)
(* and then a blank line.                                                  *)
C14_BlockShapeWithSeparator ==
  last[1] = "report" =>
    \A s \in Labels :
      LET n == Cardinality(WaysOf(times, s)) IN
        /\ Cardinality(Openers(out, s)) = (IF n = 0 THEN 0 ELSE 1)
        /\ \A h \in Openers(out, s) :
             /\ BlockAt(out, times, s, h)
             /\ n > 1 => /\ h + n + 1 <= Len(out)
                         /\ IsBlank(out[h + n + 1])

(* C14 amended: one line with the full path of the way when the label has  *)
(* one way; a header line and then one indented line per way when it has   *)
(* more, with no separator line: the next label's block follows directly   *)
(* and the report has no blank line.                                       *)
C14_BlockShape ==
  last[1] = "report" =>
    /\ \A s \in Labels :
         LET n == Cardinality(WaysOf(times, s)) IN
           /\ Cardinality(Openers(out, s)) = (IF n = 0 THEN 0 ELSE 1)
           /\ \A h \in Openers(out, s) :
                /\ BlockAt(out, times, s, h)
                /\ (n > 1 /\ h + n < Len(out)) => ~out[h + n + 1].indent
    /\ \A i \in 1..Len(out) : ~IsBlank(out[i])

\* a report with a label of one way and a label of two ways
C14_Witness ==
  /\ last[1] = "report"
  /\ \E i, j \in 1..Len(out) :
       /\ ~out[i].indent /\ Len(out[i].name) = 1
       /\ ~out[j].indent /\ Len(out[j].name) > 1

(* C15: whenever report() computes a percentage or an average the divisor  *)
(* is not zero: in every state the durations recorded are positive and the *)
(* counts at least 1, the total is positive as soon as a label is          *)
(* recorded, and every line of the text report() has just returned divides *)
(* by a positive total and by a count of at least 1.                       *)
C15_DivisorsNonZero ==
  /\ \A k \in DOMAIN times : times[k] > 0
  /\ \A k \in DOMAIN counts : counts[k] >= 1
  /\ LabelsIn(times) # {} => total_time(times) > 0
  /\ last[1] = "report" =>
       \A n \in 1..Len(out) : out[n].total > 0 /\ out[n].count >= 1

\* a report that wrote lines, one of them for a path entered twice
C15_Witness ==
  /\ last[1] = "report"
  /\ \E n \in 1..Len(out) : out[n].count = 2 /\ out[n].dur = 1

(* C16 as claimed: dropping a Guard when the stack is empty is a fatal     *)
(* error (a panic, which poisons the Mutex), not a silent no-op.           *)
C16_DropOnEmptyFaults ==
  [][(drop /\ Len(stack) = 0) => poisoned']_vars

(* C16 amended: dropping a Guard when the stack is empty completes without *)
(* an error: the pending interval goes to the empty path, the stack stays  *)
(* empty, the counts stay as they are and started advances to the time of  *)
(* the drop.                                                               *)
C16_DropOnEmptyCompletes ==
  [][(drop /\ Len(stack) = 0) =>
       /\ ~poisoned'
       /\ stack' = <<>>
       /\ counts' = counts
       /\ guards' = guards - 1
       /\ started' = clock'
       /\ IF clock > started
          THEN AddedAt(times, times', <<>>, clock - started)
          ELSE times' = times]_vars

\* a Guard that outlived a clear was dropped on the stack the clear left
C16_Witness ==
  /\ last[1] = "drop"
  /\ stale
  /\ counts = EmptyMap
  /\ <<>> \in DOMAIN times

C18_StartedNeverDecreases == [][started' >= started]_vars

\* a drop was committed after another thread had read its timestamp: that
\* thread's timestamp is now earlier than started
C18_Witness ==
  /\ last[1] = "drop"
  /\ \E t \in Threads : pending[t].op = "push" /\ pending[t].now < started

(* C19: in every reachable state every non-empty prefix of the stack is a  *)
(* key of counts with a value of at least 1, every non-empty key of times  *)
(* is a key of counts, and report() has never panicked looking up a count  *)
(* (the Mutex is not poisoned).                                            *)
C19_CountedPaths ==
  /\ \A i \in 1..Len(stack) :
       /\ SubSeq(stack, 1, i) \in DOMAIN counts
       /\ counts[SubSeq(stack, 1, i)] >= 1
  /\ \A k \in DOMAIN times : Len(k) > 0 => k \in DOMAIN counts
  /\ ~poisoned

\* after a clear that a Guard outlived, a replace and a push built a stack
\* of two labels, and report() recorded time for it
C19_Witness ==
  /\ last[1] = "report"
  /\ stale
  /\ Len(stack) = 2
  /\ stack \in DOMAIN times

(* C20: when the threads call only push, replace, drop and clear (never    *)
(* report), each reading its timestamp before it takes the lock, the       *)
(* intervals committed never overlap: under every interleaving the sum of  *)
(* the durations in times is at most the time elapsed since the last       *)
(* clear.                                                                  *)
C20_NoOverlapWithoutReport ==
  /\ epoch <= clock
  /\ SumMap(times) <= clock - epoch

\* all the time since the last clear is accounted for, on two paths, while
\* a thread holds a timestamp it read before the last commit
C20_Witness ==
  /\ Cardinality(DOMAIN times) = 2
  /\ SumMap(times) = clock - epoch
  /\ \E t \in Threads : pending[t].op # "none" /\ pending[t].now < started

====
